---- MODULE Spec2Model ----
(***************************************************************************)
(* A model of the AVR EEPROM library (EEPROM.h): the cell reference EERef, *)
(* the bit view EEBit, the pointer EEPtr and the facade EEPROMClass, over  *)
(* the two hardware primitives eeprom_read_byte / eeprom_write_byte.       *)
(* Every physical access is logged, so that the number and the order of    *)
(* the hardware cycles an operation issues can be stated.                  *)
(***************************************************************************)
EXTENDS Integers, Sequences, FiniteSets, TLC

\* ------------------------------------------------------------------ bounds

\* Last valid EEPROM address of the modelled device (<avr/io.h>); the device
\* has E2END + 1 cells.
E2END == 2

\* Largest sizeof(T) of a value handed to get / put.
MaxSize == 2

\* Operations of the main context in one run.
MaxOps == 2

\* Read-modify-write operations (compound assignments, increments, bit
\* writes) in one run: they leave the sampled byte values.
MaxRmw == 1

\* Interrupt handler activations in one run.
MaxIsr == 1

\* ------------------------------------------------------- integer widths

\* uint8_t: a cell, an operand, a mask.
Uint8Mod == 256

\* int on AVR: 16 bits, what uint8_t operands are promoted to.
IntMod == 65536

ToUint8(x) == x % Uint8Mod

ToInt(x) == ((x + (IntMod \div 2)) % IntMod) - (IntMod \div 2)

RECURSIVE BitAnd(_, _)
BitAnd(x, y) ==
    IF x = 0 \/ y = 0 THEN 0
    ELSE (x % 2) * (y % 2) + 2 * BitAnd(x \div 2, y \div 2)

RECURSIVE BitOr(_, _)
BitOr(x, y) ==
    IF x = 0 THEN y
    ELSE IF y = 0 THEN x
    ELSE (IF x % 2 = 1 \/ y % 2 = 1 THEN 1 ELSE 0) + 2 * BitOr(x \div 2, y \div 2)

RECURSIVE BitXor(_, _)
BitXor(x, y) ==
    IF x = 0 THEN y
    ELSE IF y = 0 THEN x
    ELSE ((x + y) % 2) + 2 * BitXor(x \div 2, y \div 2)

\* ~x on an int (two's complement).
BitNot(x) == (0 - x) - 1

\* ------------------------------------------------------- sampled inputs

Addr == 0 .. E2END

BitIdx == 0 .. 7

\* Bytes the storage holds initially.
InitBytes == {5, 255}

\* Bytes the storage holds initially for the arithmetic operators: both
\* ends of the byte range, for the wrap-arounds.
ArithBytes == {0, 5, 255}

\* Bytes written by write / update / put.
WriteBytes == {5, 170}

\* Operands of the compound assignments (non-zero: they also divide).
Operands == {3, 170, 255}

\* Shift counts of <<= and >>=.
ShiftCounts == 0 .. 7

\* Bits the interrupt handler writes.
IsrBits == {0, 7}

RECURSIVE SeqsOf(_, _)
SeqsOf(S, n) ==
    IF n = 0 THEN {<<>>}
    ELSE {Append(s, e) : s \in SeqsOf(S, n - 1), e \in S}

\* -------------------------------------------------------------- state

VARIABLES
    mem,      \* the EEPROM: address -> byte
    reads,    \* addresses physically read by the last operation, in order
    writes,   \* <<address, byte>> physically written by the last operation
    pre,      \* the EEPROM as it was when the last operation started
    op,       \* the last operation and its arguments
    ret,      \* what the last operation returned
    nops,     \* operations performed
    ptr,      \* the iterating caller's EEPtr
    visited,  \* addresses the iteration dereferenced, in order
    pc,       \* "idle", "loop" (iterating), "rmw" (between read and write), "done"
    tmp,      \* the byte a split read-modify-write has read
    isr       \* the interrupt handler: activations, and its write inside the window

vars == <<mem, reads, writes, pre, op, ret, nops, ptr, visited, pc, tmp, isr>>

\* The hardware as the operators below thread it.
HW == [mem |-> mem, reads |-> <<>>, writes |-> <<>>]

NoOp == [name |-> "none", a |-> 0, v |-> 0, bidx |-> 0, b |-> FALSE, x |-> <<>>]

NoRet == [val |-> 0, flag |-> FALSE, obj |-> <<>>, ptr |-> 0]

NoIsr == [count |-> 0, hit |-> FALSE, val |-> 0]

\* ------------------------------------------------ hardware primitives

eeprom_read_byte(h, index) ==
    [h |-> [h EXCEPT !.reads = Append(@, index)], val |-> h.mem[index]]

eeprom_write_byte(h, index, in) ==
    [h EXCEPT !.mem[index] = in, !.writes = Append(@, <<index, in>>)]

\* ---------------------------------------------------------------- EERef

\* operator*() and operator const uint8_t()
EERef_read(h, index) == eeprom_read_byte(h, index)

\* operator=( uint8_t in )
EERef_assign(h, index, in) == eeprom_write_byte(h, index, ToUint8(in))

\* The right-hand sides of the compound assignments: uint8_t operands are
\* promoted to int, the int result is converted back to uint8_t. A product
\* above 32767 (255 * 255) does not fit the 16-bit int; the 8 x 8 bit multiply
\* the AVR build emits wraps, and the low byte kept is the same for any wrap.
AddVal(s, in) == ToUint8(ToInt(s + in))
SubVal(s, in) == ToUint8(ToInt(s - in))
MulVal(s, in) == ToUint8(ToInt(s * in))
DivVal(s, in) == ToUint8(s \div in)
XorVal(s, in) == ToUint8(BitXor(s, in))
ModVal(s, in) == ToUint8(s % in)
AndVal(s, in) == ToUint8(BitAnd(s, in))
OrVal(s, in)  == ToUint8(BitOr(s, in))
ShlVal(s, in) == ToUint8(ToInt(s * (2 ^ in)))
ShrVal(s, in) == ToUint8(s \div (2 ^ in))

Compound(name, s, in) ==
    CASE name = "+="  -> AddVal(s, in)
      [] name = "-="  -> SubVal(s, in)
      [] name = "*="  -> MulVal(s, in)
      [] name = "/="  -> DivVal(s, in)
      [] name = "^="  -> XorVal(s, in)
      [] name = "%="  -> ModVal(s, in)
      [] name = "&="  -> AndVal(s, in)
      [] name = "|="  -> OrVal(s, in)
      [] name = "<<=" -> ShlVal(s, in)
      [] name = ">>=" -> ShrVal(s, in)

\* A variant of the compound assignments that stores through update.
EERef_compound_cond(h, index, name, in) ==
    LET r == EERef_read(h, index)
    IN  IF Compound(name, r.val, in) # r.val
        THEN EERef_assign(r.h, index, Compound(name, r.val, in))
        ELSE r.h

\* A variant of the store that combines the operand with the byte the cell
\* holds when the write is issued, not with the byte read before.
EERef_store_fresh(h, index, name, s, in) ==
    EERef_assign(h, index, Compound(name, h.mem[index], in))

\* The write half of a compound assignment: *this = s <op> in, s being the
\* byte **this has read.
EERef_store(h, index, name, s, in) == EERef_assign(h, index, Compound(name, s, in))

\* operator <op>=( uint8_t in ): *this = **this <op> in
EERef_compound(h, index, name, in) ==
    LET r == EERef_read(h, index)
    IN  EERef_store(r.h, index, name, r.val, in)

\* A variant of update that writes without comparing.
EERef_update_always(h, index, in) ==
    LET r == EERef_read(h, index)
    IN  EERef_assign(r.h, index, in)

\* The second half of update, s being the byte the comparison has read.
EERef_update_store(h, index, s, in) ==
    IF in # s THEN EERef_assign(h, index, in) ELSE h

\* update( uint8_t in ): in != *this ? *this = in : *this
EERef_update(h, index, in) ==
    LET r == EERef_read(h, index)
    IN  EERef_update_store(r.h, index, r.val, in)

\* operator++() / operator--()
EERef_preinc(h, index) == EERef_compound(h, index, "+=", 1)

EERef_predec(h, index) == EERef_compound(h, index, "-=", 1)

\* A variant of the postfix increment that returns the new value.
EERef_postinc_new(h, index) ==
    LET h2 == EERef_preinc(h, index)
    IN  [h |-> h2, val |-> h2.mem[index]]

\* operator++(int) / operator--(int)
EERef_postinc(h, index) ==
    LET r == EERef_read(h, index)
    IN  [h |-> EERef_preinc(r.h, index), val |-> r.val]

EERef_postdec(h, index) ==
    LET r == EERef_read(h, index)
    IN  [h |-> EERef_predec(r.h, index), val |-> r.val]

\* ---------------------------------------------------------------- EEBit

\* EEBit( int index, uint8_t bidx ) : ref( index ), mask( 0x01 << bidx )
EEBit_ctor(index, bidx) == [ref |-> index, mask |-> ToUint8(ToInt(2 ^ bidx))]

\* EERef::operator[]( const int bidx )
EERef_index(index, bidx) == EEBit_ctor(index, bidx)

\* operator const bool(): ref & mask
EEBit_bool(h, bit) ==
    LET r == EERef_read(h, bit.ref)
    IN  [h |-> r.h, val |-> BitAnd(r.val, bit.mask) # 0]

\* A variant of the bit assignment that stores the mask itself when setting.
EEBit_assign_clobber(h, bit, copy) ==
    IF copy
    THEN EERef_assign(EERef_read(h, bit.ref).h, bit.ref, bit.mask)
    ELSE EERef_compound(h, bit.ref, "&=", ToUint8(BitNot(bit.mask)))

\* The compound assignment a bit assignment turns into.
EEBit_operand(bit, copy) ==
    IF copy THEN [name |-> "|=", in |-> bit.mask]
    ELSE [name |-> "&=", in |-> ToUint8(BitNot(bit.mask))]

\* operator=( const bool &copy ): if( copy ) ref |= mask; else ref &= ~mask;
EEBit_assign(h, bit, copy) ==
    LET c == EEBit_operand(bit, copy)
    IN  EERef_compound(h, bit.ref, c.name, c.in)

\* ---------------------------------------------------------------- EEPtr

\* operator*()
EEPtr_deref(index) == index

\* operator!=( const EEPtr &ptr )
EEPtr_ne(index, other) == index # other

\* operator++()
EEPtr_preinc(index) == ToInt(index + 1)

\* The ptr parameter of get / put is an EEPtr taken by value: the caller's
\* pointer after the call is the one it passed, not the callee's local.
ByReference(caller, local) == local

ByValue(caller, local) == caller

\* ---------------------------------------------------------- EEPROMClass

EEPROM_read(h, ref) == EERef_read(h, ref)

\* A variant of write that goes through the conditional update.
EEPROM_write_cond(h, ref, val) == EERef_update(h, ref, val)

EEPROM_write(h, ref, val) == EERef_assign(h, ref, val)

EEPROM_update(h, ref, val) == EERef_update(h, ref, val)

\* readBit returns the bit view; the caller coerces it to bool.
EEPROM_readBit(ref, bidx) == EERef_index(ref, bidx)

EEPROM_writeBit(h, ref, bidx, val) == EEBit_assign(h, EERef_index(ref, bidx), val)

EEPROM_begin == 0

\* uint16_t length(): E2END + 1
EEPROM_length == (E2END + 1) % IntMod

\* A variant of end that names the last cell instead of the one after it.
EEPROM_end_last == ToInt(E2END)

EEPROM_end == ToInt(EEPROM_length)

\* for( int count = sizeof(T) ; count ; --count, ++ptr ) *dest++ = *ptr;
RECURSIVE GetLoop(_, _, _, _)
GetLoop(h, p, dest, count) ==
    IF count = 0 THEN [h |-> h, ptr |-> p, t |-> dest]
    ELSE LET r == EERef_read(h, EEPtr_deref(p))
         IN  GetLoop(r.h, EEPtr_preinc(p), Append(dest, r.val), count - 1)

\* A variant of get that fills the destination from its high end.
RECURSIVE GetLoopRev(_, _, _, _)
GetLoopRev(h, p, dest, count) ==
    IF count = 0 THEN [h |-> h, ptr |-> p, t |-> dest]
    ELSE LET r == EERef_read(h, EEPtr_deref(p))
         IN  GetLoopRev(r.h, EEPtr_preinc(p), <<r.val>> \o dest, count - 1)

EEPROM_get_rev(h, p, size) == GetLoopRev(h, p, <<>>, size)

EEPROM_get(h, p, size) == GetLoop(h, p, <<>>, size)

\* for( int count = sizeof(T) ; count ; --count, ++ptr ) (*ptr).update( *src++ );
RECURSIVE PutLoop(_, _, _, _)
PutLoop(h, p, src, count) ==
    IF count = 0 THEN [h |-> h, ptr |-> p]
    ELSE PutLoop(EERef_update(h, EEPtr_deref(p), Head(src)),
                 EEPtr_preinc(p), Tail(src), count - 1)

\* A variant of put that stores every byte with an unconditional write.
RECURSIVE PutLoopWrite(_, _, _, _)
PutLoopWrite(h, p, src, count) ==
    IF count = 0 THEN [h |-> h, ptr |-> p]
    ELSE PutLoopWrite(EERef_assign(EERef_read(h, EEPtr_deref(p)).h, EEPtr_deref(p), Head(src)),
                      EEPtr_preinc(p), Tail(src), count - 1)

EEPROM_put_write(h, p, t) == PutLoopWrite(h, p, t, Len(t))

EEPROM_put(h, p, t) == PutLoop(h, p, t, Len(t))

\* ------------------------------------------------------------- actions

InitWith(bytes) ==
    /\ mem \in [Addr -> bytes]
    /\ reads = <<>>
    /\ writes = <<>>
    /\ pre = mem
    /\ op = NoOp
    /\ ret = NoRet
    /\ nops = 0
    /\ ptr = 0
    /\ visited = <<>>
    /\ pc = "idle"
    /\ tmp = 0
    /\ isr = NoIsr

Init == InitWith(InitBytes)

\* The effect of one whole operation of the main context.
Finish(h, o, r) ==
    /\ mem' = h.mem
    /\ reads' = h.reads
    /\ writes' = h.writes
    /\ pre' = mem
    /\ op' = o
    /\ ret' = r
    /\ nops' = nops + 1
    /\ pc' = "idle"
    /\ UNCHANGED <<ptr, visited, tmp, isr>>

Read ==
    /\ pc \in {"idle", "done"}
    /\ nops < MaxOps
    /\ \E a \in Addr :
        LET r == EEPROM_read(HW, a)
        IN  Finish(r.h, [NoOp EXCEPT !.name = "read", !.a = a],
                   [NoRet EXCEPT !.val = r.val])

Write ==
    /\ pc \in {"idle", "done"}
    /\ nops < MaxOps
    /\ \E a \in Addr, v \in WriteBytes :
        Finish(EEPROM_write(HW, a, v),
               [NoOp EXCEPT !.name = "write", !.a = a, !.v = v], NoRet)

Update ==
    /\ pc \in {"idle", "done"}
    /\ nops < MaxOps
    /\ \E a \in Addr, v \in WriteBytes :
        Finish(EEPROM_update(HW, a, v),
               [NoOp EXCEPT !.name = "update", !.a = a, !.v = v], NoRet)

NextCell == Read \/ Write \/ Update

SpecCell == Init /\ [][NextCell]_vars

CompoundOps == {"+=", "-=", "*=", "/=", "^=", "%=", "&=", "|=", "<<=", ">>="}

OperandsOf(name) == IF name \in {"<<=", ">>="} THEN ShiftCounts ELSE Operands

CompoundAssign ==
    /\ pc \in {"idle", "done"}
    /\ nops < MaxRmw
    /\ \E a \in Addr, name \in CompoundOps :
        \E in \in OperandsOf(name) :
            Finish(EERef_compound(HW, a, name, in),
                   [NoOp EXCEPT !.name = name, !.a = a, !.v = in], NoRet)

PreInc ==
    /\ pc \in {"idle", "done"}
    /\ nops < MaxRmw
    /\ \E a \in Addr :
        Finish(EERef_preinc(HW, a), [NoOp EXCEPT !.name = "++x", !.a = a], NoRet)

PreDec ==
    /\ pc \in {"idle", "done"}
    /\ nops < MaxRmw
    /\ \E a \in Addr :
        Finish(EERef_predec(HW, a), [NoOp EXCEPT !.name = "--x", !.a = a], NoRet)

PostInc ==
    /\ pc \in {"idle", "done"}
    /\ nops < MaxRmw
    /\ \E a \in Addr :
        LET r == EERef_postinc(HW, a)
        IN  Finish(r.h, [NoOp EXCEPT !.name = "x++", !.a = a],
                   [NoRet EXCEPT !.val = r.val])

PostDec ==
    /\ pc \in {"idle", "done"}
    /\ nops < MaxRmw
    /\ \E a \in Addr :
        LET r == EERef_postdec(HW, a)
        IN  Finish(r.h, [NoOp EXCEPT !.name = "x--", !.a = a],
                   [NoRet EXCEPT !.val = r.val])

NextArith == CompoundAssign \/ PreInc \/ PreDec \/ PostInc \/ PostDec

InitArith == InitWith(ArithBytes)

SpecArith == InitArith /\ [][NextArith]_vars

ReadBit ==
    /\ pc \in {"idle", "done"}
    /\ nops < MaxOps
    /\ \E a \in Addr, i \in BitIdx :
        LET r == EEBit_bool(HW, EEPROM_readBit(a, i))
        IN  Finish(r.h, [NoOp EXCEPT !.name = "readBit", !.a = a, !.bidx = i],
                   [NoRet EXCEPT !.flag = r.val])

WriteBit ==
    /\ pc \in {"idle", "done"}
    /\ nops < MaxRmw
    /\ \E a \in Addr, i \in BitIdx, b \in BOOLEAN :
        Finish(EEPROM_writeBit(HW, a, i, b),
               [NoOp EXCEPT !.name = "writeBit", !.a = a, !.bidx = i, !.b = b], NoRet)

NextBit == ReadBit \/ WriteBit

SpecBit == Init /\ [][NextBit]_vars

\* The caller makes an EEPtr at p and hands it to get / put.
Get ==
    /\ pc \in {"idle", "done"}
    /\ nops < MaxOps
    /\ \E n \in 1 .. MaxSize, p \in Addr :
        /\ p + n - 1 <= E2END
        /\ LET r == EEPROM_get(HW, p, n)
           IN  /\ mem' = r.h.mem
               /\ reads' = r.h.reads
               /\ writes' = r.h.writes
               /\ pre' = mem
               /\ op' = [NoOp EXCEPT !.name = "get", !.a = p, !.v = n]
               /\ ret' = [NoRet EXCEPT !.obj = r.t, !.ptr = r.ptr]
               /\ ptr' = ByValue(p, r.ptr)
               /\ nops' = nops + 1
               /\ pc' = "idle"
               /\ UNCHANGED <<visited, tmp, isr>>

Put ==
    /\ pc \in {"idle", "done"}
    /\ nops < MaxOps
    /\ \E n \in 1 .. MaxSize, p \in Addr :
        /\ p + n - 1 <= E2END
        /\ \E x \in SeqsOf(WriteBytes, n) :
            LET r == EEPROM_put(HW, p, x)
            IN  /\ mem' = r.h.mem
                /\ reads' = r.h.reads
                /\ writes' = r.h.writes
                /\ pre' = mem
                /\ op' = [NoOp EXCEPT !.name = "put", !.a = p, !.v = n, !.x = x]
                /\ ret' = [NoRet EXCEPT !.obj = x, !.ptr = r.ptr]
                /\ ptr' = ByValue(p, r.ptr)
                /\ nops' = nops + 1
                /\ pc' = "idle"
                /\ UNCHANGED <<visited, tmp, isr>>

NextBlock == Get \/ Put

SpecBlock == Init /\ [][NextBlock]_vars

\* for( EEPtr p = EEPROM.begin() ; p != EEPROM.end() ; ++p ) visit( *p );
IterBegin ==
    /\ pc \in {"idle", "done"}
    /\ nops < MaxOps
    /\ ptr' = EEPROM_begin
    /\ visited' = <<>>
    /\ reads' = <<>>
    /\ writes' = <<>>
    /\ pre' = mem
    /\ op' = [NoOp EXCEPT !.name = "iterate"]
    /\ ret' = NoRet
    /\ nops' = nops + 1
    /\ pc' = "loop"
    /\ UNCHANGED <<mem, tmp, isr>>

\* One turn of the loop: the visit reads the cell, then ++p.
IterStep ==
    /\ pc = "loop"
    /\ EEPtr_ne(ptr, EEPROM_end)
    /\ LET r == EERef_read([mem |-> mem, reads |-> reads, writes |-> writes],
                           EEPtr_deref(ptr))
       IN  /\ visited' = Append(visited, EEPtr_deref(ptr))
           /\ reads' = r.h.reads
           /\ ret' = [ret EXCEPT !.obj = Append(@, r.val)]
    /\ ptr' = EEPtr_preinc(ptr)
    /\ UNCHANGED <<mem, writes, pre, op, nops, pc, tmp, isr>>

IterExit ==
    /\ pc = "loop"
    /\ ~EEPtr_ne(ptr, EEPROM_end)
    /\ pc' = "done"
    /\ UNCHANGED <<mem, reads, writes, pre, op, ret, nops, ptr, visited, tmp, isr>>

\* Iterations, and writes between them.
NextIter == IterBegin \/ IterStep \/ IterExit \/ Write

\* The loop runs in one thread with nothing to wait for: a turn that can be
\* taken is taken.
SpecIter == Init /\ [][NextIter]_vars /\ WF_vars(IterStep) /\ WF_vars(IterExit)

\* ---- the same operations with the interrupt handler between their halves

\* The storage the interrupt scenario starts from: every cell 10101010.
InitIsr == InitWith({170})

LoggedHW == [mem |-> mem, reads |-> reads, writes |-> writes]

\* The main context starts writeBit( a, i, b ) or update( a, v ): the physical
\* read of the cell.
RmwRead ==
    /\ pc = "idle"
    /\ \E a \in Addr :
        /\ \/ \E i \in BitIdx, b \in BOOLEAN :
                op' = [NoOp EXCEPT !.name = "writeBit", !.a = a, !.bidx = i, !.b = b]
           \/ \E v \in WriteBytes :
                op' = [NoOp EXCEPT !.name = "update", !.a = a, !.v = v]
        /\ LET r == EERef_read(LoggedHW, a)
           IN  /\ tmp' = r.val
               /\ reads' = r.h.reads
    /\ pre' = mem
    /\ pc' = "rmw"
    /\ UNCHANGED <<mem, writes, ret, nops, ptr, visited, isr>>

\* The main context ends the operation: the physical write computed from the
\* byte it has read.
RmwWrite ==
    /\ pc = "rmw"
    /\ LET h == IF op.name = "writeBit"
                THEN LET c == EEBit_operand(EERef_index(op.a, op.bidx), op.b)
                     IN  EERef_store(LoggedHW, op.a, c.name, tmp, c.in)
                ELSE EERef_update_store(LoggedHW, op.a, tmp, op.v)
       IN  /\ mem' = h.mem
           /\ writes' = h.writes
    /\ nops' = nops + 1
    /\ pc' = "done"
    /\ UNCHANGED <<reads, pre, op, ret, ptr, visited, tmp, isr>>

\* The interrupt handler runs to completion between two steps of the main
\* context: it writes one bit of one cell.
Isr ==
    /\ isr.count < MaxIsr
    /\ \E a \in Addr, j \in IsrBits, b \in BOOLEAN :
        LET h == EEPROM_writeBit(LoggedHW, a, j, b)
        IN  /\ mem' = h.mem
            /\ reads' = h.reads
            /\ writes' = h.writes
            /\ isr' = [count |-> isr.count + 1,
                       hit |-> isr.hit \/ (pc = "rmw" /\ a = op.a),
                       val |-> IF pc = "rmw" /\ a = op.a THEN h.mem[a] ELSE isr.val]
    /\ UNCHANGED <<pre, op, ret, nops, ptr, visited, pc, tmp>>

NextIsr == RmwRead \/ RmwWrite \/ Isr

SpecIsr == InitIsr /\ [][NextIsr]_vars

\* Every operation of the main context, each atomic.
Next == NextCell \/ NextArith \/ NextBit \/ NextBlock \/ NextIter

Spec == Init /\ [][Next]_vars

\* ------------------------------------------------- write, read, update

\* C1: update(a, v) issues exactly one physical read of a, no physical write
\* when the stored byte equals v and exactly one physical write of v to a
\* otherwise; the cell holds v afterwards and a following read(a) returns v.
UpdateContract ==
    /\ [](op.name = "update" =>
            /\ reads = <<op.a>>
            /\ (pre[op.a] = op.v => writes = <<>>)
            /\ (pre[op.a] # op.v => writes = << <<op.a, op.v>> >>)
            /\ mem[op.a] = op.v)
    /\ [][(op.name = "update" /\ op'.name = "read" /\ op'.a = op.a)
            => ret'.val = op.v]_vars

\* An update of a cell that already held the value: one read, no write.
UpdateWitness ==
    /\ op.name = "update"
    /\ pre[op.a] = op.v
    /\ reads = <<op.a>>
    /\ writes = <<>>

\* C4: write(a, v) issues exactly one physical write, of v to a, and no
\* physical read, whatever the cell held; a following read(a) returns v.
WriteContract ==
    /\ [](op.name = "write" =>
            /\ writes = << <<op.a, op.v>> >>
            /\ reads = <<>>
            /\ mem[op.a] = op.v)
    /\ [][(op.name = "write" /\ op'.name = "read" /\ op'.a = op.a)
            => ret'.val = op.v]_vars

\* A write of the byte the cell already held: still one physical write.
WriteWitness ==
    /\ op.name = "write"
    /\ pre[op.a] = op.v
    /\ Len(writes) = 1

\* ------------------------------------ compound assignment, ++ and --

\* Bit k of x.
Bit(x, k) == (x \div (2 ^ k)) % 2

\* The byte whose bit k is f[k].
ByteOf(f) ==
    f[0] + 2 * f[1] + 4 * f[2] + 8 * f[3] + 16 * f[4] + 32 * f[5] + 64 * f[6] + 128 * f[7]

\* read() <op> operand reduced to 8 bits, stated arithmetically.
Expected(name, s, in) ==
    CASE name = "+="  -> (s + in) % 256
      [] name = "-="  -> (s - in) % 256
      [] name = "*="  -> (s * in) % 256
      [] name = "/="  -> s \div in
      [] name = "%="  -> s % in
      [] name = "^="  -> ByteOf([k \in BitIdx |-> (Bit(s, k) + Bit(in, k)) % 2])
      [] name = "&="  -> ByteOf([k \in BitIdx |-> Bit(s, k) * Bit(in, k)])
      [] name = "|="  -> ByteOf([k \in BitIdx |-> IF Bit(s, k) + Bit(in, k) > 0 THEN 1 ELSE 0])
      [] name = "<<=" -> (s * (2 ^ in)) % 256
      [] name = ">>=" -> s \div (2 ^ in)

\* C8: every compound assignment issues exactly one physical read and exactly
\* one physical write, of (read() <op> operand) mod 256, also when that equals
\* the stored byte.
CompoundContract ==
    op.name \in CompoundOps =>
        /\ reads = <<op.a>>
        /\ writes = << <<op.a, Expected(op.name, pre[op.a], op.v)>> >>
        /\ mem[op.a] = Expected(op.name, pre[op.a], op.v)

\* A compound assignment whose result is the stored byte, written all the same
\* (255 |= 170), and one whose int result does not fit 16 bits (255 *= 255).
CompoundWitness ==
    /\ op.name \in {"|=", "*="}
    /\ pre[op.a] = 255
    /\ op.v \in {170, 255}
    /\ mem[op.a] = (IF op.name = "|=" THEN 255 ELSE 1)
    /\ Len(writes) = 1

\* C7: x++ / x-- return the byte the cell held and leave it at (s + 1) / (s - 1)
\* mod 256; ++x / --x leave the cell as += 1 / -= 1 leave it.
IncDecContract ==
    /\ op.name = "x++" => ret.val = pre[op.a] /\ mem[op.a] = (pre[op.a] + 1) % 256
    /\ op.name = "x--" => ret.val = pre[op.a] /\ mem[op.a] = (pre[op.a] - 1) % 256
    /\ op.name = "++x" => mem[op.a] = Expected("+=", pre[op.a], 1)
    /\ op.name = "--x" => mem[op.a] = Expected("-=", pre[op.a], 1)
    /\ op.name \in {"x++", "x--", "++x", "--x"} =>
            \A c \in Addr : c # op.a => mem[c] = pre[c]

\* x++ on a cell holding 5 yields 5 and leaves 6.
IncDecWitness ==
    /\ op.name = "x++"
    /\ pre[op.a] = 5
    /\ ret.val = 5
    /\ mem[op.a] = 6

\* ------------------------------------------------------------ bit access

\* C5: after writeBit(a, i, b) bit i of cell a is b and a following
\* readBit(a, i) coerces to b; the other seven bits of cell a and every other
\* cell keep their prior values.
WriteBitContract ==
    /\ [](op.name = "writeBit" =>
            /\ Bit(mem[op.a], op.bidx) = (IF op.b THEN 1 ELSE 0)
            /\ \A k \in BitIdx : k # op.bidx => Bit(mem[op.a], k) = Bit(pre[op.a], k)
            /\ \A c \in Addr : c # op.a => mem[c] = pre[c])
    /\ [][(op.name = "writeBit" /\ op'.name = "readBit"
            /\ op'.a = op.a /\ op'.bidx = op.bidx) => ret'.flag = op.b]_vars

\* Setting a clear bit of a cell that has other bits set (5 = 00000101).
WriteBitWitness ==
    /\ op.name = "writeBit"
    /\ op.b
    /\ op.bidx = 1
    /\ pre[op.a] = 5
    /\ mem[op.a] = 7

\* ---------------------------------------------------------------- blocks

\* The addresses p, p + 1, ..., p + n - 1.
Range(p, n) == [i \in 1 .. n |-> p + i - 1]

\* The positions of x whose byte differs from the stored one, ascending.
Differing(p, x) ==
    SelectSeq([i \in 1 .. Len(x) |-> i], LAMBDA i : pre[p + i - 1] # x[i])

\* C2: put(p, x) issues a physical write to cell p + i exactly when the stored
\* byte there differs from byte i of x, and the write stores that byte.
PutMinimal ==
    op.name = "put" =>
        LET d == Differing(op.a, op.x)
        IN  writes = [k \in 1 .. Len(d) |-> <<op.a + d[k] - 1, op.x[d[k]]>>]

\* A second put of a two-byte value of which only the second byte differs
\* from what the first put stored: one physical write, to the second cell.
PutMinimalWitness ==
    /\ op.name = "put"
    /\ nops = 2
    /\ op.x = <<170, 5>>
    /\ pre[op.a] = 170
    /\ pre[op.a + 1] = 255
    /\ writes = << <<op.a + 1, 5>> >>

\* A put of the byte pattern the storage already holds: no physical write.
PutNoWriteWitness ==
    /\ op.name = "put"
    /\ Len(op.x) = 2
    /\ writes = <<>>

\* C3: after put(p, x) cell p + i holds byte i of x, and a following
\* get(p, y) of the same size leaves y equal to x, byte i read from p + i.
PutGetRoundTrip ==
    /\ [](op.name = "put" =>
            \A i \in 1 .. Len(op.x) : mem[op.a + i - 1] = op.x[i])
    /\ [](op.name = "get" =>
            /\ ret.obj = [i \in 1 .. op.v |-> mem[op.a + i - 1]]
            /\ reads = Range(op.a, op.v))
    /\ [][(op.name = "put" /\ op'.name = "get" /\ op'.a = op.a /\ op'.v = Len(op.x))
            => ret'.obj = op.x]_vars

\* A get that returns two different bytes a put has stored (170 is never in
\* the initial storage).
PutGetWitness ==
    /\ op.name = "get"
    /\ ret.obj = <<170, 5>>

\* C10: put touches the cells p .. p + n - 1 once each in ascending order and
\* no other cell; get reads them once each in ascending order and writes
\* nothing; neither moves the caller's pointer.
BlockFrame ==
    /\ op.name = "put" =>
            /\ \A c \in Addr : (c < op.a \/ c >= op.a + Len(op.x)) => mem[c] = pre[c]
            /\ reads = Range(op.a, Len(op.x))
            /\ \A k \in 1 .. Len(writes) :
                    /\ writes[k][1] \in op.a .. op.a + Len(op.x) - 1
                    /\ k > 1 => writes[k - 1][1] < writes[k][1]
            /\ ret.ptr = op.a + Len(op.x)
            /\ ptr = op.a
    /\ op.name = "get" =>
            /\ writes = <<>>
            /\ reads = Range(op.a, op.v)
            /\ mem = pre
            /\ ret.ptr = op.a + op.v
            /\ ptr = op.a

\* A two-byte put at address 1 that rewrote both cells and left cell 0 alone.
BlockFrameWitness ==
    /\ op.name = "put"
    /\ op.a = 1
    /\ Len(writes) = 2
    /\ ptr = 1
    /\ ret.ptr = 3

\* ------------------------------------------------------------- iteration

\* C6: the loop from begin() to end() dereferences 0, 1, ..., N - 1 in that
\* order, each once, never N, and ends after N turns; length() is N.
IterationExact ==
    /\ [](pc = "loop" =>
            /\ visited = Range(0, Len(visited))
            /\ Len(visited) <= E2END + 1
            /\ ptr = Len(visited))
    /\ [](pc = "done" =>
            /\ visited = Range(0, E2END + 1)
            /\ reads = visited
            /\ EEPROM_length = Len(visited))
    /\ ((pc = "loop") ~> (pc = "done"))

\* A finished iteration over the whole storage.
IterationWitness ==
    /\ pc = "done"
    /\ Len(visited) = E2END + 1
    /\ ptr = E2END + 1

\* ------------------------------------------------------------ interrupts

\* C9: a read-modify-write is not atomic. The write of a bit write stores
\* the byte read before, with the one bit changed: whatever the handler has
\* stored in the cell since the read is overwritten. The write of an update
\* is decided by the byte read before, not by the byte the cell holds.
RmwStale ==
    [][(pc = "rmw" /\ pc' = "done") =>
        /\ op.name = "writeBit" =>
                /\ \A k \in BitIdx : k # op.bidx => Bit(mem'[op.a], k) = Bit(tmp, k)
                /\ Bit(mem'[op.a], op.bidx) = (IF op.b THEN 1 ELSE 0)
        /\ op.name = "update" =>
                mem'[op.a] = (IF tmp # op.v THEN op.v ELSE mem[op.a])]_vars

\* A lost update: the handler changed another bit of the cell between the
\* read and the write of a bit write, and the cell has that bit as it was
\* before the handler ran.
RmwLostWitness ==
    /\ pc = "done"
    /\ op.name = "writeBit"
    /\ isr.hit
    /\ \E k \in BitIdx :
        /\ k # op.bidx
        /\ Bit(isr.val, k) # Bit(tmp, k)
        /\ Bit(mem[op.a], k) = Bit(tmp, k)
        /\ Bit(mem[op.a], k) # Bit(isr.val, k)

====
